---------------------------- MODULE Spec2Model ----------------------------
(***************************************************************************)
(* Model of app.py, the Streamlit dashboard over the 2024 Madrid accident  *)
(* file.  A run of the script is a sequence of sections (load, KPI cards,  *)
(* map, alcohol chart, vehicle chart, sex charts, age pyramid); every user *)
(* interaction re-runs the script from the top with the widget values of   *)
(* the session.  load_data is memoized by st.cache_data.                   *)
(* Spec starts with the file at the first candidate path; SpecPaths starts *)
(* with the file at either, both or none of the two paths.                 *)
(***************************************************************************)
EXTENDS Integers, Sequences, FiniteSets, TLC

(***************************************************************************)
(* Bounds of the model.                                                    *)
(***************************************************************************)
\* largest number of records in the input file
MaxRows == 3
\* largest number of widgets a session has moved off their defaults
MaxChanged == 2
\* largest number of records in the file when the paths vary
MaxPathRows == 1
\* the session is followed until the file has been read this many times
MaxReads == 2

(***************************************************************************)
(* Missing values.  NA is the missing value of a text column (NaN in an    *)
(* object column), NaN the missing value of a numeric column, NaT the      *)
(* missing value of a datetime column; a present numeric value v is        *)
(* written <<v>>, a present date or time is a triple of numbers.           *)
(***************************************************************************)
NA == "<NA>"
NaN == << >>
NaT == << >>
Num(v) == << v >>

(***************************************************************************)
(* Vocabularies of the source.                                             *)
(***************************************************************************)
\* COLOR_MAP_LESIVIDAD.keys(), in order
orden_lesividad ==
    << "Sin asistencia sanitaria",
       "Asistencia sanitaria sólo en el lugar del accidente",
       "Asistencia sanitaria ambulatoria con posterioridad",
       "Atención en urgencias sin posterior ingreso",
       "Ingreso inferior o igual a 24 horas",
       "Ingreso superior a 24 horas",
       "Fallecido 24 horas",
       "Se desconoce" >>

\* day_name() of pandas, indexed 1 (Monday) .. 7 (Sunday)
day_names ==
    << "Monday", "Tuesday", "Wednesday", "Thursday", "Friday", "Saturday", "Sunday" >>

\* dias_map of load_data, as a set of <<key, value>> pairs
dias_map ==
    { << "Monday", "Lunes" >>, << "Tuesday", "Martes" >>, << "Wednesday", "Miércoles" >>,
      << "Thursday", "Jueves" >>, << "Friday", "Viernes" >>, << "Saturday", "Sábado" >>,
      << "Sunday", "Domingo" >> }

\* categories of the dia_semana column
orden == << "Lunes", "Martes", "Miércoles", "Jueves", "Viernes", "Sábado", "Domingo" >>

\* options of the three widgets with a fixed vocabulary
escenarios == << "Todo el tráfico", "Sólo graves o mortales", "Sólo atropellos" >>
dias_posibles == << "Viernes", "Sábado", "Domingo" >>
seleccion_defecto ==
    << "Turismo", "Motocicleta > 125cc", "Bicicleta", "Peatón", "VMU eléctrico" >>

\* the slider of the map: st.slider(..., 0, 23, 19)
hora_min == 0
hora_max == 23
hora_defecto == 19

Range(s) == { s[i] : i \in 1..Len(s) }

(***************************************************************************)
(* Text order.  sorted() compares Python strings by code point; Chars      *)
(* gives the code points of the labels the model uses (as far as needed to *)
(* tell any two of them apart).                                            *)
(***************************************************************************)
Chars(s) ==
    CASE s = "> 74"             -> << 62, 32, 55, 52 >>
      [] s = "De 6 a 9 años"    -> << 68, 101, 32, 54, 32 >>
      [] s = "De 25 a 29 años"  -> << 68, 101, 32, 50, 53 >>
      [] s = "De 40 a 44 años"  -> << 68, 101, 32, 52, 48 >>
      [] s = "Más de 74 años"   -> << 77, 225, 115 >>
      [] s = "Desconocido"      -> << 68, 101, 115 >>
      [] s = "CENTRO"           -> << 67, 69 >>
      [] s = "RETIRO"           -> << 82, 69 >>
      [] s = "Bicicleta"        -> << 66, 105 >>
      [] s = "Motocicleta > 125cc" -> << 77, 111 >>
      [] s = "Turismo"          -> << 84, 117 >>
      [] s = "VMU eléctrico"    -> << 86, 77 >>

RECURSIVE LexLess(_, _)
LexLess(a, b) ==
    IF a = << >> THEN b # << >>
    ELSE IF b = << >> THEN FALSE
    ELSE IF Head(a) # Head(b) THEN Head(a) < Head(b)
    ELSE LexLess(Tail(a), Tail(b))

StrLess(s, t) == LexLess(Chars(s), Chars(t))

\* sorted(S) for a set S of strings
RECURSIVE sorted(_)
sorted(S) ==
    IF S = {} THEN << >>
    ELSE LET m == CHOOSE x \in S : \A y \in S \ {x} : StrLess(x, y)
         IN  << m >> \o sorted(S \ {m})


(***************************************************************************)
(* The input file.  A raw record holds the text of the columns the script  *)
(* reads: fecha is the three numbers of "dd/mm/yyyy" in the order written, *)
(* hora the three numbers of "H:MM:SS", the coordinates are numbers in     *)
(* metres; an empty cell of these columns is NaN, of a text column NA.     *)
(* A cell of a coordinate column whose text is no number ("440000,5",      *)
(* written with a decimal comma) stays text: it is the tuple of the code   *)
(* points of its characters, which has more than one element.              *)
(* RawPool is the set of records the files of the model are drawn from;    *)
(* its first three records are the three-row scenario of the               *)
(* specification.                                                          *)
(***************************************************************************)
Raw(id, f, h, dis, veh, per, edad, sx, les, x, y, alc) ==
    [ num_expediente |-> id, fecha |-> f, hora |-> h, distrito |-> dis,
      tipo_vehiculo |-> veh, tipo_persona |-> per, rango_edad |-> edad,
      sexo |-> sx, lesividad |-> les,
      coordenada_x_utm |-> x, coordenada_y_utm |-> y, positiva_alcohol |-> alc ]

\* the text "440000,5"
CommaDecimal == << 52, 52, 48, 48, 48, 48, 44, 53 >>

\* a cell that pd.read_csv left as a number or as missing
IsNumeric(c) == Len(c) <= 1

RawPool ==
    << Raw(1, <<5, 1, 2024>>, <<19, 30, 0>>, "CENTRO", "Turismo", "Peatón",
           "De 25 a 29 años", "Mujer", "Ingreso superior a 24 horas",
           Num(440000), Num(4474000), "N"),
       Raw(2, <<5, 1, 2024>>, <<19, 5, 0>>, "CENTRO", "Turismo", "Conductor",
           "De 40 a 44 años", "Hombre", "Sin asistencia sanitaria",
           Num(440000), Num(4474000), "S"),
       Raw(3, <<6, 1, 2024>>, <<8, 15, 0>>, "RETIRO", "Motocicleta > 125cc", "Peatón",
           "Más de 74 años", "Hombre", "Fallecido 24 horas",
           Num(442000), Num(4476000), "N"),
       Raw(4, <<5, 1, 2024>>, <<19, 45, 0>>, "RETIRO", "Bicicleta", "Conductor",
           "De 6 a 9 años", "Desconocido", "Ingreso superior a 24 horas",
           NaN, NaN, "S"),
       Raw(5, <<6, 1, 2024>>, <<25, 10, 0>>, NA, NA, "Pasajero",
           NA, NA, "Ingreso inferior o igual a 24 horas",
           Num(442000), Num(4476000), "S"),
       Raw(6, <<7, 1, 2024>>, <<19, 0, 0>>, "CENTRO", "Turismo", "Conductor",
           "De 25 a 29 años", "Hombre", NA,
           Num(440000), Num(4474000), "S"),
       Raw(7, <<8, 1, 2024>>, NaN, "RETIRO", "VMU eléctrico", "Conductor",
           "De 40 a 44 años", "Mujer", "Ingreso inferior o igual a 24 horas",
           Num(442000), NaN, "S"),
       Raw(8, <<5, 1, 2024>>, <<19, 20, 0>>, "CENTRO", "Turismo", "Peatón",
           "De 25 a 29 años", "Mujer", "Ingreso superior a 24 horas",
           CommaDecimal, Num(4474000), "N") >>

\* the subsequence of s at the positions of the set I, in order
RECURSIVE SubSeqAt(_, _, _)
SubSeqAt(s, I, i) ==
    IF i > Len(s) THEN << >>
    ELSE (IF i \in I THEN << s[i] >> ELSE << >>) \o SubSeqAt(s, I, i + 1)

\* the files of the model: at most MaxRows records of the pool, in pool order
Files ==
    { SubSeqAt(RawPool, I, 1) :
        I \in { J \in SUBSET (1..Len(RawPool)) : Cardinality(J) <= MaxRows } }

(***************************************************************************)
(* load_data, column by column.                                            *)
(***************************************************************************)
\* pd.to_datetime(df["fecha"], dayfirst=True): "dd/mm/yyyy" read day first
\* a date is <<year, month, day>>
ParseFecha(f) ==
    IF f = NaN THEN NaT ELSE << f[3], f[2], f[1] >>

\* pd.to_datetime(df["hora"], format="%H:%M:%S", errors="coerce"): NaT for a
\* cell that is empty or does not match the format; a time is
\* <<hour, minute, second>>
ParseHora(h) ==
    IF h = NaN THEN NaT
    ELSE IF h[1] \in 0..23 /\ h[2] \in 0..59 /\ h[3] \in 0..59
         THEN << h[1], h[2], h[3] >>
         ELSE NaT

\* df["hora_dt"].dt.hour: NaN for NaT
HoraNum(hora_dt) == IF hora_dt = NaT THEN NaN ELSE Num(hora_dt[1])

\* Series.dt.day_name(): the English day name of a date (NA for NaT)
DayName(fecha) ==
    IF fecha = NaT THEN NA
    ELSE LET t == << 0, 3, 2, 5, 0, 3, 5, 1, 4, 6, 2, 4 >>
             y == IF fecha[2] < 3 THEN fecha[1] - 1 ELSE fecha[1]
             \* 0 = Sunday .. 6 = Saturday
             w == (y + (y \div 4) - (y \div 100) + (y \div 400)
                     + t[fecha[2]] + fecha[3]) % 7
         IN  day_names[IF w = 0 THEN 7 ELSE w]

\* Series.map(dias_map): the value of the key, NA for a key the dict lacks
MapDia(name) ==
    IF \E p \in dias_map : p[1] = name
    THEN (CHOOSE p \in dias_map : p[1] = name)[2]
    ELSE NA

\* pd.Categorical(values, categories=orden): a value outside the categories is NA
Categorical(v, cats) == IF v \in Range(cats) THEN v ELSE NA

\* the IEEE infinity of a float column, written as the quotient 1/0
Inf == << 1, 0 >>

\* Transformer.from_crs("EPSG:25830", "EPSG:4326", always_xy=True).transform
\* is called with errcheck=False and no guard on the inputs.  What it gives
\* for a pair with a missing member is decided by the PROJ library and not
\* by the script: the missing value propagates (NaN), or the inverse
\* projection fails its range test and reports the point as infinite.
MissingOutcomes == { NaN, Inf }

\* (x, y) in metres of UTM zone 30N to (lon, lat) in thousandths of a
\* degree, at the points the records of the pool lie on
TransformTable ==
    [ p \in { << 440000, 4474000 >>, << 442000, 4476000 >> } |->
        IF p = << 440000, 4474000 >> THEN [ lon |-> Num(-3707), lat |-> Num(40414) ]
        ELSE [ lon |-> Num(-3684), lat |-> Num(40433) ] ]

\* transformer.transform on one pair; na is what the library gives when a
\* member of the pair is missing
Transform(x, y, na) ==
    IF x = NaN \/ y = NaN THEN [ lon |-> na, lat |-> na ]
    ELSE TransformTable[<< x[1], y[1] >>]

\* transformer.transform(x.values, y.values) copies each column into a buffer
\* of doubles; a column that holds a text cell is an object column, and the
\* conversion of that text raises ValueError
TransformRaises(raw) ==
    \E i \in 1..Len(raw) :
        \/ ~IsNumeric(raw[i].coordenada_x_utm)
        \/ ~IsNumeric(raw[i].coordenada_y_utm)

\* df['positiva_alcohol'] == 'S'
Alcohol(positiva_alcohol) == positiva_alcohol = "S"

\* df['rango_edad'].replace({'Más de 74 años': '> 74'})
ReplaceEdad(e) == IF e = "Más de 74 años" THEN "> 74" ELSE e

\* the severity column left as read, without the fillna
FillLesividadNone(l) == l

\* df['lesividad'].fillna("Se desconoce")
FillLesividad(l) == IF l = NA THEN "Se desconoce" ELSE l

\* one record of the prepared table
PrepareRow(r, na) ==
    LET fecha   == ParseFecha(r.fecha)
        hora_dt == ParseHora(r.hora)
        ll      == Transform(r.coordenada_x_utm, r.coordenada_y_utm, na)
    IN  [ num_expediente |-> r.num_expediente,
          fecha |-> fecha,
          hora |-> r.hora,
          hora_dt |-> hora_dt,
          hora_num |-> HoraNum(hora_dt),
          dia_semana |-> Categorical(MapDia(DayName(fecha)), orden),
          distrito |-> r.distrito,
          tipo_vehiculo |-> r.tipo_vehiculo,
          tipo_persona |-> r.tipo_persona,
          rango_edad |-> ReplaceEdad(r.rango_edad),
          sexo |-> r.sexo,
          lesividad |-> FillLesividad(r.lesividad),
          coordenada_x_utm |-> r.coordenada_x_utm,
          coordenada_y_utm |-> r.coordenada_y_utm,
          lon |-> ll.lon,
          lat |-> ll.lat,
          positiva_alcohol |-> r.positiva_alcohol,
          alcohol |-> Alcohol(r.positiva_alcohol) ]

\* a table: its records in order, and the categories of its dia_semana column
Table(rows, cats) == [ rows |-> rows, dia_cats |-> cats ]

\* the name df (or a derived frame) before the script has bound it
NoTable == Table(<< >>, << >>)

\* what the transform gives for a missing pair, record by record
Outcomes(raw) == [ 1..Len(raw) -> MissingOutcomes ]

\* the body of load_data after the path is resolved (lines 96-119); out[i]
\* is what the transform gives for record i if its pair has a missing member
Prepare(raw, out) ==
    Table([ i \in 1..Len(raw) |-> PrepareRow(raw[i], out[i]) ], orden)

(***************************************************************************)
(* Frames.  A boolean mask is the set of the positions where it is True;   *)
(* the selection df[mask] builds a new frame with the records at those     *)
(* positions, in order, and the dtypes (here the categories) of its source.*)
(***************************************************************************)
\* the positions (index) of a frame
Idx(d) == 1..Len(d.rows)

\* df[mask]
Select(d, mask) == Table(SubSeqAt(d.rows, mask, 1), d.dia_cats)

\* df.empty
Empty(d) == d.rows = << >>

\* the values of the column col of a frame
Column(d, col) == { d.rows[i][col] : i \in Idx(d) }

\* a set of integers in ascending order
RECURSIVE SortedInts(_)
SortedInts(S) ==
    IF S = {} THEN << >>
    ELSE LET m == CHOOSE x \in S : \A y \in S : x <= y
         IN  << m >> \o SortedInts(S \ {m})

(***************************************************************************)
(* KPI cards (lines 214-217).                                              *)
(***************************************************************************)
\* Series.mode(): the most frequent non-missing values, sorted
Mode(d) ==
    LET vals == Column(d, "distrito") \ {NA}
        n(v) == Cardinality({ i \in Idx(d) : d.rows[i].distrito = v })
    IN  sorted({ v \in vals : \A w \in vals : n(w) <= n(v) })

graves_kpi == { "Ingreso superior a 24 horas", "Fallecido 24 horas" }

\* the four figures of the cards; mode()[0] raises KeyError on an empty mode
Kpi(d) ==
    IF Mode(d) = << >> THEN [ raised |-> TRUE ]
    ELSE [ raised |-> FALSE,
           total_personas |-> Len(d.rows),
           media_diaria |-> Len(d.rows) \div 366,
           distrito_top |-> Mode(d)[1],
           graves_count |->
               Cardinality({ i \in Idx(d) : d.rows[i].lesividad \in graves_kpi }) ]

(***************************************************************************)
(* 1. Map (lines 290-299).                                                 *)
(***************************************************************************)
graves_mapa == { "Ingreso superior a 24 horas", "Fallecido 24 horas" }

\* df[df["hora_num"] == hora_mapa]
AtHour(d, h) == Select(d, { i \in Idx(d) : d.rows[i].hora_num = Num(h) })

\* .dropna(subset=["lat", "lon"])
DropNaLatLon(d) == Select(d, { i \in Idx(d) : d.rows[i].lat # NaN /\ d.rows[i].lon # NaN })

\* variant of Scenario without the pedestrian branch
ScenarioNoPeaton(d, esc) ==
    IF esc = "Sólo graves o mortales"
    THEN Select(d, { i \in Idx(d) : d.rows[i].lesividad \in graves_mapa })
    ELSE d

\* the scenario filter of lines 292-296
Scenario(d, esc) ==
    IF esc = "Sólo graves o mortales"
    THEN Select(d, { i \in Idx(d) : d.rows[i].lesividad \in graves_mapa })
    ELSE IF esc = "Sólo atropellos"
    THEN Select(d, { i \in Idx(d) : d.rows[i].tipo_persona = "Peatón" })
    ELSE d

MapFrame(d, h, esc) == Scenario(DropNaLatLon(AtHour(d, h)), esc)

\* what the map column shows for df_map: the warning or the hexagon layer
MapOut(m) == IF Empty(m) THEN "warning" ELSE "chart"

(***************************************************************************)
(* 2. Alcohol (lines 360-381).                                             *)
(***************************************************************************)
\* variant of AlcFrame that takes an empty selection to mean every day
AlcFrameEmptyMeansAll(d, sel) ==
    Select(d, { i \in Idx(d) : /\ d.rows[i].alcohol = TRUE
                                /\ (sel = {} \/ d.rows[i].dia_semana \in sel) })

\* df[(df["alcohol"] == True) & (df["dia_semana"].isin(dias_sel))].copy()
AlcFrame(d, sel) ==
    Select(d, { i \in Idx(d) : d.rows[i].alcohol = TRUE /\ d.rows[i].dia_semana \in sel })

\* .cat.remove_unused_categories(): the categories some record carries, in order
RemoveUnused(d) ==
    Table(d.rows, SubSeqAt(d.dia_cats,
                           { k \in 1..Len(d.dia_cats) :
                               \E i \in Idx(d) : d.rows[i].dia_semana = d.dia_cats[k] }, 1))

\* groupby(["hora_num", "dia_semana"], observed=True).size().reset_index(name="n"):
\* one row per observed (hour, day), hours ascending and days in category order
\* within an hour; a record with a missing key is in no group
RECURSIVE GroupRows(_, _, _)
GroupRows(d, hs, i) ==
    IF i > Len(hs) THEN << >>
    ELSE LET n(c) == Cardinality({ k \in Idx(d) : /\ d.rows[k].hora_num = Num(hs[i])
                                                     /\ d.rows[k].dia_semana = c })
             obs  == SubSeqAt(d.dia_cats, { k \in 1..Len(d.dia_cats) : n(d.dia_cats[k]) > 0 }, 1)
         IN  [ j \in 1..Len(obs) |->
                 [ hora_num |-> hs[i], dia_semana |-> obs[j], n |-> n(obs[j]) ] ]
             \o GroupRows(d, hs, i + 1)

\* variant of Counts for observed=False: a row for every category at every
\* observed hour, with n = 0 where no record falls
RECURSIVE GroupRowsAll(_, _, _)
GroupRowsAll(d, hs, i) ==
    IF i > Len(hs) THEN << >>
    ELSE [ j \in 1..Len(d.dia_cats) |->
             [ hora_num |-> hs[i], dia_semana |-> d.dia_cats[j],
               n |-> Cardinality({ k \in Idx(d) : /\ d.rows[k].hora_num = Num(hs[i])
                                                    /\ d.rows[k].dia_semana = d.dia_cats[j] }) ] ]
         \o GroupRowsAll(d, hs, i + 1)

CountsUnobserved(d) ==
    LET hours == { r.hora_num[1] : r \in { q \in Range(d.rows) : q.hora_num # NaN } }
    IN  GroupRowsAll(d, SortedInts(hours), 1)

Counts(d) ==
    LET hours == { r.hora_num[1] : r \in { q \in Range(d.rows) : q.hora_num # NaN } }
    IN  GroupRows(d, SortedInts(hours), 1)

\* px.line(counts, x="hora_num", y="n", color="dia_semana"): one trace per day
\* of counts, holding the (hour, n) points of that day
FigAlc(cs) ==
    { [ name |-> c,
        points |-> { << cs[i].hora_num, cs[i].n >> : i \in { j \in 1..Len(cs) : cs[j].dia_semana = c } } ]
      : c \in { cs[i].dia_semana : i \in 1..Len(cs) } }

\* the branch of line 363
AlcOut(a) == IF ~Empty(a) THEN "chart" ELSE "info"

(***************************************************************************)
(* 3. Vehicles (lines 415-448).                                            *)
(***************************************************************************)
\* sorted(df["tipo_vehiculo"].dropna().unique())
TodosLosVehiculos(d) == sorted(Column(d, "tipo_vehiculo") \ {NA})

\* default=seleccion_defecto, whatever the table holds
VehDefaultUnfiltered(d) == Range(seleccion_defecto)

\* default=[v for v in seleccion_defecto if v in todos_los_vehiculos]
VehDefault(d) == Range(seleccion_defecto) \cap Range(TodosLosVehiculos(d))

\* df[df["tipo_vehiculo"].isin(vehiculos_sel)]
VulFrame(d, sel) == Select(d, { i \in Idx(d) : d.rows[i].tipo_vehiculo \in sel })

\* px.histogram(frame, <pos>, color=<col>, barnorm="percent"), pos and col
\* column names: one bar per (position, colour) pair of the frame, its value
\* the share of the pair in the records at that position, as the fraction
\* 100 * count / total
BarNormPercent(d, pos, col) ==
    { [ pos |-> pr[1], color |-> pr[2],
        count |-> Cardinality({ i \in Idx(d) : /\ d.rows[i][pos] = pr[1]
                                               /\ d.rows[i][col] = pr[2] }),
        pct_num |-> 100 * Cardinality({ i \in Idx(d) : /\ d.rows[i][pos] = pr[1]
                                                       /\ d.rows[i][col] = pr[2] }),
        pct_den |-> Cardinality({ i \in Idx(d) : /\ d.rows[i][pos] = pr[1]
                                                 /\ d.rows[i][col] # NA }) ]
      : pr \in { << d.rows[i][pos], d.rows[i][col] >> :
                  i \in { k \in Idx(d) : d.rows[k][pos] # NA /\ d.rows[k][col] # NA } } }

\* variant of FigVul for histnorm="percent": shares of the whole frame
FigVulOfTotal(d) ==
    { [ b EXCEPT !.pct_den = Len(d.rows) ]
      : b \in BarNormPercent(d, "tipo_vehiculo", "lesividad") }

FigVul(d) == BarNormPercent(d, "tipo_vehiculo", "lesividad")

(***************************************************************************)
(* 4. Sex (lines 484-534).                                                 *)
(***************************************************************************)
sexos == { "Hombre", "Mujer" }
graves_sexo ==
    { "Ingreso superior a 24 horas", "Ingreso inferior o igual a 24 horas",
      "Fallecido 24 horas" }

\* df[df["sexo"].isin(["Hombre", "Mujer"])]
SexFrame(d) == Select(d, { i \in Idx(d) : d.rows[i].sexo \in sexos })

\* variant of GravesFrame with the two-level list of the map
GravesFrameTwoLevels(ds) ==
    Select(ds, { i \in Idx(ds) : ds.rows[i].lesividad \in graves_mapa })

\* df_sex[df_sex['lesividad'].isin(graves)]
GravesFrame(ds) == Select(ds, { i \in Idx(ds) : ds.rows[i].lesividad \in graves_sexo })

FigGeneros(ds) == BarNormPercent(ds, "sexo", "tipo_persona")

\* px.pie(df_graves, names="sexo"): one slice per sex of the frame, its value
\* the number of records
FigPie(dg) ==
    { [ label |-> x, value |-> Cardinality({ i \in Idx(dg) : dg.rows[i].sexo = x }) ]
      : x \in Column(dg, "sexo") \ {NA} }

(***************************************************************************)
(* 5. Age pyramid (lines 550-552).                                         *)
(***************************************************************************)
\* variant of YAge that takes the labels from the records of recognized sex
YAgeRecognized(d) ==
    sorted(Column(Select(d, { i \in Idx(d) : d.rows[i].sexo \in sexos }), "rango_edad") \ {NA})

\* sorted(df["rango_edad"].dropna().unique())
YAge(d) == sorted(Column(d, "rango_edad") \ {NA})

\* df[df['sexo']==sx].groupby('rango_edad').size(): label -> count, for the
\* labels of the records of that sex, as a set of <<label, count>>
SizeByEdad(d, sx) ==
    LET g == Select(d, { i \in Idx(d) : d.rows[i].sexo = sx })
    IN  { << e, Cardinality({ i \in Idx(g) : g.rows[i].rango_edad = e }) >>
          : e \in Column(g, "rango_edad") \ {NA} }

\* .reindex(index, fill_value=0): the value of each label of index, fill_value
\* for a label the series lacks
Reindex(series, index, fill_value) ==
    [ i \in 1..Len(index) |->
        IF \E p \in series : p[1] = index[i]
        THEN << index[i], (CHOOSE p \in series : p[1] = index[i])[2] >>
        ELSE << index[i], fill_value >> ]

AgeSeries(d, sx) == Reindex(SizeByEdad(d, sx), YAge(d), 0)

(***************************************************************************)
(* State.                                                                  *)
(***************************************************************************)
VARIABLES
    exists,         \* which of the two candidate paths hold the file
    file,           \* the records of the file (static)
    cache,          \* the memo of st.cache_data for load_data: << >> or <<table>>
    n_read,         \* how many times the file was read and prepared
    probes,         \* the paths load_data probed in the current run, in order
    pc,             \* the section the current run is at
    escenario,      \* st.radio of the map
    hora_mapa,      \* st.slider of the map
    dias_sel,       \* st.multiselect of the alcohol chart
    vehiculos_sel,  \* st.multiselect of the vehicle chart: << >> before the
                    \* widget first exists, then <<selection>>
    df,             \* the names the script binds in the current run
    kpi, df_map, df_alc, counts, fig_alc, df_vul, fig_vul,
    df_sex, df_graves, fig_generos, fig_pie, y_age, df_m, df_f,
    ui              \* what each section has put on the page in the current run

env == << exists, file >>
memo == << cache, n_read >>
widgets == << escenario, hora_mapa, dias_sel, vehiculos_sel >>
v_map == << df_map >>
v_alc == << df_alc, counts, fig_alc >>
v_vul == << df_vul, fig_vul >>
v_sex == << df_sex, df_graves, fig_generos, fig_pie >>
v_pyr == << y_age, df_m, df_f >>
vars == << env, memo, probes, pc, widgets, df, kpi, v_map, v_alc, v_vul, v_sex, v_pyr, ui >>

Sections == { "load", "kpi", "map", "alcohol", "vehiculos", "generos", "pie", "piramide" }
NoUi == [ s \in Sections |-> "none" ]
NoKpi == [ raised |-> FALSE, total_personas |-> 0, media_diaria |-> 0,
           distrito_top |-> NA, graves_count |-> 0 ]

\* a run starts with an empty page and no name bound
FreshRun ==
    /\ pc' = "load"
    /\ probes' = << >>
    /\ df' = NoTable
    /\ kpi' = NoKpi
    /\ df_map' = NoTable
    /\ df_alc' = NoTable /\ counts' = << >> /\ fig_alc' = {}
    /\ df_vul' = NoTable /\ fig_vul' = {}
    /\ df_sex' = NoTable /\ df_graves' = NoTable /\ fig_generos' = {} /\ fig_pie' = {}
    /\ y_age' = << >> /\ df_m' = << >> /\ df_f' = << >>
    /\ ui' = NoUi

\* the slider positions the interactions of the model move the slider to
HoraChoices == { hora_min, 8, hora_defecto, hora_max }

\* the start of a session: nothing memoized, the widgets at their defaults,
\* the first run of the script about to begin
SessionStart ==
    /\ cache = << >>
    /\ n_read = 0
    /\ probes = << >>
    /\ pc = "load"
    /\ escenario = escenarios[1]
    /\ hora_mapa = hora_defecto
    /\ dias_sel = Range(dias_posibles)
    /\ vehiculos_sel = << >>
    /\ df = NoTable
    /\ kpi = NoKpi
    /\ df_map = NoTable
    /\ df_alc = NoTable /\ counts = << >> /\ fig_alc = {}
    /\ df_vul = NoTable /\ fig_vul = {}
    /\ df_sex = NoTable /\ df_graves = NoTable /\ fig_generos = {} /\ fig_pie = {}
    /\ y_age = << >> /\ df_m = << >> /\ df_f = << >>
    /\ ui = NoUi

\* the file is where the script looks first
Init ==
    /\ exists = [ p \in { "primary", "secondary" } |-> p = "primary" ]
    /\ file \in Files
    /\ SessionStart

\* the file is at either, both or none of the two paths
InitPaths ==
    /\ exists \in [ { "primary", "secondary" } -> BOOLEAN ]
    /\ file \in IF \E p \in DOMAIN exists : exists[p]
                THEN { f \in Files : Len(f) <= MaxPathRows }
                ELSE { << >> }
    /\ SessionStart

(***************************************************************************)
(* load_data (lines 85-121).                                               *)
(***************************************************************************)
\* variant of ResolvePath that looks in data/ first
ResolvePathDataFirst(ex) ==
    IF ex["secondary"]
    THEN [ path |-> "secondary", probed |-> << "secondary", "secondary" >> ]
    ELSE [ path |-> "primary", probed |-> << "secondary", "primary" >> ]

\* lines 87-92: the path load_data settles on and the exists() calls it makes
ResolvePath(ex) ==
    IF ex["primary"]
    THEN [ path |-> "primary", probed |-> << "primary", "primary" >> ]
    ELSE [ path |-> "secondary", probed |-> << "primary", "secondary" >> ]

\* variant of CacheHit for a load_data without the decorator
CacheNever(c) == FALSE

\* @st.cache_data: a call runs the body only when the memo holds no value
CacheHit(c) == c # << >>

LoadData ==
    /\ pc = "load"
    /\ IF CacheHit(cache)
       THEN /\ df' = cache[1]
            /\ pc' = "kpi"
            /\ UNCHANGED << memo, probes, ui >>
       ELSE LET r == ResolvePath(exists)
            IN  /\ probes' = r.probed
                /\ IF ~exists[r.path]
                   THEN \* st.error(...); st.stop()
                        /\ ui' = [ ui EXCEPT !["load"] = "error" ]
                        /\ pc' = "stopped"
                        /\ UNCHANGED << memo, df >>
                   ELSE /\ n_read' = n_read + 1
                        /\ IF TransformRaises(file)
                           THEN \* the exception leaves load_data: nothing is
                                \* memoized and the run ends
                                /\ ui' = [ ui EXCEPT !["load"] = "exception" ]
                                /\ pc' = "crashed"
                                /\ UNCHANGED << cache, df >>
                           ELSE /\ \E out \in Outcomes(file) :
                                      /\ cache' = << Prepare(file, out) >>
                                      /\ df' = Prepare(file, out)
                                /\ pc' = "kpi"
                                /\ UNCHANGED ui
    /\ UNCHANGED << env, widgets, kpi, v_map, v_alc, v_vul, v_sex, v_pyr >>

(***************************************************************************)
(* The sections of the page, in script order.                              *)
(***************************************************************************)
KpiCards ==
    /\ pc = "kpi"
    /\ kpi' = Kpi(df)
    /\ IF Kpi(df).raised
       THEN /\ pc' = "crashed"
            /\ ui' = [ ui EXCEPT !["kpi"] = "exception" ]
       ELSE /\ pc' = "map"
            /\ ui' = [ ui EXCEPT !["kpi"] = "cards" ]
    /\ UNCHANGED << env, memo, probes, widgets, df, v_map, v_alc, v_vul, v_sex, v_pyr >>

MapView ==
    /\ pc = "map"
    /\ df_map' = MapFrame(df, hora_mapa, escenario)
    /\ ui' = [ ui EXCEPT !["map"] = MapOut(MapFrame(df, hora_mapa, escenario)) ]
    /\ pc' = "alcohol"
    /\ UNCHANGED << env, memo, probes, widgets, df, kpi, v_alc, v_vul, v_sex, v_pyr >>

\* variant of AlcFrames that trims the categories of the shared frame in place
\* before selecting from it
AlcFramesInPlace(d, sel) ==
    [ df |-> RemoveUnused(d), df_alc |-> RemoveUnused(AlcFrame(RemoveUnused(d), sel)) ]

\* lines 360-361: the frames df and df_alc name after the two statements; the
\* column assignment of line 361 writes the copy made on line 360
AlcFrames(d, sel) == [ df |-> d, df_alc |-> RemoveUnused(AlcFrame(d, sel)) ]

AlcoholView ==
    /\ pc = "alcohol"
    /\ LET f == AlcFrames(df, dias_sel)
       IN  /\ df' = f.df
           /\ df_alc' = f.df_alc
           /\ IF AlcOut(f.df_alc) = "chart"
              THEN /\ counts' = Counts(f.df_alc)
                   /\ fig_alc' = FigAlc(Counts(f.df_alc))
              ELSE UNCHANGED << counts, fig_alc >>
           /\ ui' = [ ui EXCEPT !["alcohol"] = AlcOut(f.df_alc) ]
    /\ pc' = "vehiculos"
    /\ UNCHANGED << env, memo, probes, widgets, kpi, v_map, v_vul, v_sex, v_pyr >>

\* st.multiselect: the value of the session, the default when there is none
Multiselect(session, default) == IF session = << >> THEN default ELSE session[1]

VehicleView ==
    /\ pc = "vehiculos"
    /\ LET sel == Multiselect(vehiculos_sel, VehDefault(df))
       IN  /\ vehiculos_sel' = << sel >>
           /\ IF sel # {}
              THEN /\ df_vul' = VulFrame(df, sel)
                   /\ fig_vul' = FigVul(VulFrame(df, sel))
                   /\ ui' = [ ui EXCEPT !["vehiculos"] = "chart" ]
              ELSE UNCHANGED << v_vul, ui >>
    /\ pc' = "generos"
    /\ UNCHANGED << env, memo, probes, escenario, hora_mapa, dias_sel, df, kpi,
                    v_map, v_alc, v_sex, v_pyr >>

SexView ==
    /\ pc = "generos"
    /\ df_sex' = SexFrame(df)
    /\ fig_generos' = FigGeneros(SexFrame(df))
    /\ df_graves' = GravesFrame(SexFrame(df))
    /\ fig_pie' = FigPie(GravesFrame(SexFrame(df)))
    /\ ui' = [ ui EXCEPT !["generos"] = "chart", !["pie"] = "chart" ]
    /\ pc' = "piramide"
    /\ UNCHANGED << env, memo, probes, widgets, df, kpi, v_map, v_alc, v_vul, v_pyr >>

AgePyramid ==
    /\ pc = "piramide"
    /\ y_age' = YAge(df)
    /\ df_m' = AgeSeries(df, "Hombre")
    /\ df_f' = AgeSeries(df, "Mujer")
    /\ ui' = [ ui EXCEPT !["piramide"] = "chart" ]
    /\ pc' = "done"
    /\ UNCHANGED << env, memo, probes, widgets, df, kpi, v_map, v_alc, v_vul, v_sex >>

(***************************************************************************)
(* User interactions.  Changing a widget of the page re-runs the script    *)
(* with the new value; the page can also be re-run as it is.               *)
(***************************************************************************)
\* how many of the four widgets are off their default
Changed(e, h, ds, vs) ==
    (IF e # escenarios[1] THEN 1 ELSE 0) + (IF h # hora_defecto THEN 1 ELSE 0)
    + (IF ds # Range(dias_posibles) THEN 1 ELSE 0)
    + (IF vs # VehDefault(df) THEN 1 ELSE 0)

SetEscenario ==
    /\ pc = "done"
    /\ \E e \in Range(escenarios) \ {escenario} :
          /\ Changed(e, hora_mapa, dias_sel, vehiculos_sel[1]) <= MaxChanged
          /\ escenario' = e
    /\ FreshRun
    /\ UNCHANGED << env, memo, hora_mapa, dias_sel, vehiculos_sel >>

SetHora ==
    /\ pc = "done"
    /\ \E h \in (HoraChoices \cap (hora_min..hora_max)) \ {hora_mapa} :
          /\ Changed(escenario, h, dias_sel, vehiculos_sel[1]) <= MaxChanged
          /\ hora_mapa' = h
    /\ FreshRun
    /\ UNCHANGED << env, memo, escenario, dias_sel, vehiculos_sel >>

SetDias ==
    /\ pc = "done"
    /\ \E ds \in (SUBSET Range(dias_posibles)) \ {dias_sel} :
          /\ Changed(escenario, hora_mapa, ds, vehiculos_sel[1]) <= MaxChanged
          /\ dias_sel' = ds
    /\ FreshRun
    /\ UNCHANGED << env, memo, escenario, hora_mapa, vehiculos_sel >>

SetVehiculos ==
    /\ pc = "done"
    /\ \E vs \in (SUBSET Range(TodosLosVehiculos(df))) \ {vehiculos_sel[1]} :
          /\ Changed(escenario, hora_mapa, dias_sel, vs) <= MaxChanged
          /\ vehiculos_sel' = << vs >>
    /\ FreshRun
    /\ UNCHANGED << env, memo, escenario, hora_mapa, dias_sel >>

Rerun ==
    /\ pc \in { "done", "stopped", "crashed" }
    /\ n_read < MaxReads
    /\ FreshRun
    /\ UNCHANGED << env, memo, widgets >>

Next ==
    \/ LoadData
    \/ KpiCards
    \/ MapView
    \/ AlcoholView
    \/ VehicleView
    \/ SexView
    \/ AgePyramid
    \/ SetEscenario
    \/ SetHora
    \/ SetDias
    \/ SetVehiculos
    \/ Rerun

Spec == Init /\ [][Next]_vars

SpecPaths == InitPaths /\ [][Next]_vars

(***************************************************************************)
(* Properties.                                                             *)
(***************************************************************************)
\* the sum of the second components of a finite set of pairs
RECURSIVE SumPairs(_)
SumPairs(S) ==
    IF S = {} THEN 0
    ELSE LET x == CHOOSE y \in S : TRUE IN x[2] + SumPairs(S \ {x})

\* the positions of the records of the shared table that satisfy a test
Rows(Test(_)) == { i \in 1..Len(df.rows) : Test(df.rows[i]) }

\* the identifiers of the records of a frame, in order
Ids(d) == [ i \in 1..Len(d.rows) |-> d.rows[i].num_expediente ]

\* the identifiers of the records of the shared table at a set of positions
IdsAt(I) == [ i \in 1..Len(SortedInts(I)) |-> df.rows[SortedInts(I)[i]].num_expediente ]

NeitherExists == ~exists["primary"] /\ ~exists["secondary"]

\* load_data has returned the table in this run
Loaded == pc \notin { "load", "stopped" } /\ ui["load"] # "exception"

\* C1: load_data probes the primary path first and the secondary one only
\* when the primary is absent; when neither holds the file it shows the
\* error and stops, and then no table exists and no section of the page
\* (cards, map, alcohol, vehicles, sex charts, pyramid) is ever rendered.
C1_UnavailableHalts ==
    /\ probes # << >> => probes[1] = "primary"
    /\ "secondary" \in Range(probes) => ~exists["primary"]
    /\ (probes # << >> /\ ~exists["primary"]) => "secondary" \in Range(probes)
    /\ NeitherExists =>
          /\ pc \in { "load", "stopped" }
          /\ pc = "stopped" => ui["load"] = "error"
          /\ cache = << >> /\ n_read = 0 /\ df = NoTable
          /\ \A sec \in Sections \ { "load" } : ui[sec] = "none"

C1_Witness ==
    /\ NeitherExists
    /\ pc = "stopped"
    /\ ui["load"] = "error"
    /\ probes = << "primary", "secondary" >>

\* C2: over any sequence of interactions the file is read and prepared at
\* most once; every run that gets past load_data works on the memoized
\* table, which is the table prepared from the file.
C2_PreparedOnce ==
    /\ n_read <= 1
    /\ Loaded =>
          /\ n_read = 1
          /\ \E out \in Outcomes(file) : cache = << Prepare(file, out) >>

\* a later run (a widget is off its default) that has gone through load_data
C2_Witness ==
    /\ pc = "done"
    /\ n_read = 1
    /\ escenario # escenarios[1]
    /\ hora_mapa # hora_defecto

\* C3: after load_data returns, no section changes the shared table df: in
\* every state of a run past load_data it is the memoized table, rows and
\* categories alike, whatever the derived frames hold.
C3_SharedTableUnchanged ==
    Loaded => df = cache[1]

\* every view has run, and the derived frames differ from the shared table
C3_Witness ==
    /\ pc = "done"
    /\ df_alc.rows # << >> /\ df_alc.dia_cats # df.dia_cats
    /\ df_map.rows # df.rows
    /\ df_vul # NoTable /\ df_vul.rows # df.rows
    /\ df_sex.rows # df.rows
    /\ df_graves.rows # df_sex.rows
    /\ df = cache[1]

\* the scenario predicate of the map, as the claim states it
ScenarioHolds(r) ==
    CASE escenario = "Todo el tráfico" -> TRUE
      [] escenario = "Sólo graves o mortales" ->
            r.lesividad \in { "Ingreso superior a 24 horas", "Fallecido 24 horas" }
      [] escenario = "Sólo atropellos" -> r.tipo_persona = "Peatón"

\* the three-row table of the specification's scenario: pedestrian/severe at
\* 19h, driver/non-severe at 19h, pedestrian/severe at 8h
ThreeRowScenario ==
    /\ Ids(df) = << 1, 2, 3 >>
    /\ hora_mapa = 19
    /\ escenario = "Sólo graves o mortales"

\* C4 as stated: the map frame holds exactly the records at the selected
\* hour that satisfy the scenario predicate.
C4_Original ==
    ui["map"] # "none" =>
        Ids(df_map) = IdsAt(Rows(LAMBDA r : r.hora_num = << hora_mapa >> /\ ScenarioHolds(r)))

\* C4 as stated, for a table where the transform left no lat or lon missing:
\* whether some table falls outside this case is the library's choice of
\* MissingOutcomes, which the script does not determine.
C4_OriginalUnlessMissing ==
    (\A i \in 1..Len(df.rows) : df.rows[i].lat # NaN /\ df.rows[i].lon # NaN)
        => C4_Original

\* C4 (amended): the map frame holds exactly the records at the selected
\* hour whose lat and lon are both present and that satisfy the scenario
\* predicate; on the three-row table with hour 19 and the severe-or-fatal
\* scenario that is exactly one point, the pedestrian/severe record at 19h.
C4_MapFrame ==
    ui["map"] # "none" =>
        /\ Ids(df_map) = IdsAt(Rows(LAMBDA r : /\ r.hora_num = << hora_mapa >>
                                               /\ r.lat # NaN /\ r.lon # NaN
                                               /\ ScenarioHolds(r)))
        /\ \A i \in 1..Len(df_map.rows) : df_map.rows[i] \in Range(df.rows)
        /\ ThreeRowScenario => Ids(df_map) = << 1 >>

C4_Witness ==
    /\ ThreeRowScenario
    /\ ui["map"] = "chart"
    /\ Len(df_map.rows) = 1
    /\ df_map.rows[1].tipo_persona = "Peatón"
    /\ df_map.rows[1].hora_num = << 19 >>

Notices == { "warning", "info" }

\* C5: a view whose input, selection or filter result is empty shows an
\* informational notice (an explicit empty result), never a chart drawn
\* from an empty frame and never nothing at all.
C5_EmptyIsNotice ==
    /\ (ui["map"] # "none" /\ Empty(df_map)) => ui["map"] \in Notices
    /\ (ui["alcohol"] # "none" /\ Empty(df_alc)) => ui["alcohol"] \in Notices
    /\ (pc \in { "generos", "piramide", "done" } /\ Empty(df_vul)) =>
          ui["vehiculos"] \in Notices
    /\ (pc \in { "piramide", "done" } /\ Empty(df_sex)) => ui["generos"] \in Notices
    /\ (pc \in { "piramide", "done" } /\ Empty(df_graves)) => ui["pie"] \in Notices
    /\ (pc = "done" /\ y_age = << >>) => ui["piramide"] \in Notices

\* C6: with an empty day selection the alcohol view shows the explicit
\* empty result, for every table: no count rows and no series.
C6_EmptyDaysExplicit ==
    (ui["alcohol"] # "none" /\ dias_sel = {}) =>
        /\ ui["alcohol"] = "info"
        /\ df_alc.rows = << >>
        /\ counts = << >>
        /\ fig_alc = {}

\* the table holds alcohol-positive weekend records, and no day is selected
C6_Witness ==
    /\ dias_sel = {}
    /\ ui["alcohol"] = "info"
    /\ Rows(LAMBDA r : r.alcohol /\ r.dia_semana \in Range(dias_posibles)) # {}

\* the records that survive the alcohol filter, the groups they form and the
\* days that have a group, computed from the shared table
AlcSurvivors == Rows(LAMBDA r : r.alcohol /\ r.dia_semana \in dias_sel)
AlcGroup(h, c) ==
    { i \in AlcSurvivors : df.rows[i].hora_num = << h >> /\ df.rows[i].dia_semana = c }
AlcDaysWithGroup ==
    { c \in dias_sel : \E h \in 0..23 : AlcGroup(h, c) # {} }

\* the part of C7 about records and count rows
AlcCountsRight ==
    /\ Ids(df_alc) = IdsAt(AlcSurvivors)
    /\ \A i \in 1..Len(counts) :
          /\ counts[i].n = Cardinality(AlcGroup(counts[i].hora_num, counts[i].dia_semana))
          /\ counts[i].n > 0
          /\ \A j \in 1..Len(counts) :
                (counts[j].hora_num = counts[i].hora_num
                    /\ counts[j].dia_semana = counts[i].dia_semana) => j = i
    /\ \A h \in 0..23, c \in dias_sel :
          AlcGroup(h, c) # {} =>
              \E i \in 1..Len(counts) : counts[i].hora_num = h /\ counts[i].dia_semana = c
    /\ \A t \in fig_alc :
          t.points = { << counts[i].hora_num, counts[i].n >> :
                         i \in { j \in 1..Len(counts) : counts[j].dia_semana = t.name } }

\* C7 as stated: for a non-empty selection the view keeps the flagged records
\* of the selected days, counts them by (hour, day) without rows for empty
\* combinations, and returns one series per selected day.
C7_Original ==
    (ui["alcohol"] # "none" /\ dias_sel # {}) =>
        /\ AlcCountsRight
        /\ { t.name : t \in fig_alc } = dias_sel

\* C7 (amended): as stated, except that a series is returned for exactly the
\* selected days that have at least one surviving record with a known hour;
\* when no record survives the view shows the notice and no series.
C7_AlcoholCounts ==
    (ui["alcohol"] # "none" /\ dias_sel # {}) =>
        /\ AlcCountsRight
        /\ { t.name : t \in fig_alc } = AlcDaysWithGroup
        /\ ui["alcohol"] = (IF AlcSurvivors = {} THEN "info" ELSE "chart")

\* two records in one group, a selected day without a series, and a
\* surviving record with an unknown hour
C7_Witness ==
    /\ ui["alcohol"] = "chart"
    /\ \E i \in 1..Len(counts) : counts[i].n = 2
    /\ \E c \in dias_sel : c \notin { t.name : t \in fig_alc }
    /\ \E i \in AlcSurvivors : df.rows[i].hora_num = NaN

\* the vehicle selection of the session
VehSel == vehiculos_sel[1]

\* C8: for a non-empty vehicle selection the chart is built from exactly the
\* records whose vehicle type is selected, an unselected type has no bar at
\* all, and the percentages of each vehicle type over the severity
\* categories add up to 100.
C8_VehiclePercent ==
    ui["vehiculos"] = "chart" =>
        /\ VehSel # {}
        /\ Ids(df_vul) = IdsAt(Rows(LAMBDA r : r.tipo_vehiculo \in VehSel))
        /\ { b.pos : b \in fig_vul } =
              { df.rows[i].tipo_vehiculo : i \in Rows(LAMBDA r : r.tipo_vehiculo \in VehSel) }
        /\ \A b \in fig_vul :
              /\ b.count = Cardinality(Rows(LAMBDA r : /\ r.tipo_vehiculo = b.pos
                                                        /\ r.lesividad = b.color))
              /\ b.pct_num = 100 * b.count
        /\ \A v \in { b.pos : b \in fig_vul } :
              LET bars == { b \in fig_vul : b.pos = v }
              IN  \E den \in 1..Len(df.rows) :
                     /\ \A b \in bars : b.pct_den = den
                     /\ SumPairs({ << b, b.pct_num >> : b \in bars }) = 100 * den

\* a vehicle type charted with two severities, half of its records each, and
\* a type of the table left out of the selection
C8_Witness ==
    /\ ui["vehiculos"] = "chart"
    /\ \E b1 \in fig_vul, b2 \in fig_vul :
          /\ b1.pos = b2.pos /\ b1.color # b2.color
          /\ b1.pct_num = 100 /\ b1.pct_den = 2
    /\ Rows(LAMBDA r : r.tipo_vehiculo # NA /\ r.tipo_vehiculo \notin VehSel) # {}

Recognized == { "Hombre", "Mujer" }
HospitalizedOrWorse ==
    { "Ingreso inferior o igual a 24 horas", "Ingreso superior a 24 horas",
      "Fallecido 24 horas" }

\* C9: both sex charts are built from exactly the records whose sex is
\* Hombre or Mujer (any other or missing sex is left out); the severe split
\* has, per sex, the number of those records whose severity is one of the
\* three hospitalized-or-worse levels.
C9_SexViews ==
    ui["generos"] # "none" =>
        /\ Ids(df_sex) = IdsAt(Rows(LAMBDA r : r.sexo \in Recognized))
        /\ \A b \in fig_generos :
              /\ b.pos \in Recognized
              /\ b.count = Cardinality(Rows(LAMBDA r : /\ r.sexo = b.pos
                                                        /\ r.tipo_persona = b.color))
        /\ SumPairs({ << b, b.count >> : b \in fig_generos }) =
              Cardinality(Rows(LAMBDA r : r.sexo \in Recognized /\ r.tipo_persona # NA))
        /\ Ids(df_graves) =
              IdsAt(Rows(LAMBDA r : r.sexo \in Recognized /\ r.lesividad \in HospitalizedOrWorse))
        /\ \A x \in Recognized :
              LET n == Cardinality(Rows(LAMBDA r : /\ r.sexo = x
                                                    /\ r.lesividad \in HospitalizedOrWorse))
              IN  IF n = 0 THEN \A sl \in fig_pie : sl.label # x
                  ELSE [ label |-> x, value |-> n ] \in fig_pie
        /\ \A sl \in fig_pie : sl.label \in Recognized

\* a record of unrecognized sex with a hospitalized-or-worse severity is in
\* the table, and the split has a slice
C9_Witness ==
    /\ ui["pie"] = "chart"
    /\ Rows(LAMBDA r : r.sexo \notin Recognized /\ r.lesividad \in HospitalizedOrWorse) # {}
    /\ \E sl \in fig_pie : sl.value >= 1
    /\ \E sl \in fig_pie : sl.label = "Mujer"

\* the age labels of the shared table
AgeLabels == { df.rows[i].rango_edad : i \in 1..Len(df.rows) } \ { NA }

\* C10: the two series of the pyramid are indexed by the same label
\* sequence, the sorted set of all age labels of the whole table (also those
\* seen only on records of unrecognized sex); each value is the number of
\* records of that sex and label, 0 when there are none.
C10_AgePyramid ==
    ui["piramide"] # "none" =>
        /\ Range(y_age) = AgeLabels
        /\ \A i \in 1..(Len(y_age) - 1) : StrLess(y_age[i], y_age[i + 1])
        /\ Len(df_m) = Len(y_age) /\ Len(df_f) = Len(y_age)
        /\ \A i \in 1..Len(y_age) :
              /\ df_m[i] = << y_age[i],
                              Cardinality(Rows(LAMBDA r : /\ r.sexo = "Hombre"
                                                           /\ r.rango_edad = y_age[i])) >>
              /\ df_f[i] = << y_age[i],
                              Cardinality(Rows(LAMBDA r : /\ r.sexo = "Mujer"
                                                           /\ r.rango_edad = y_age[i])) >>

\* a label seen only on a record of unrecognized sex is in the index with 0
\* for both sexes, next to a label with records
C10_Witness ==
    /\ ui["piramide"] = "chart"
    /\ Len(y_age) >= 3
    /\ \E i \in 1..Len(y_age) : df_m[i][2] = 0 /\ df_f[i][2] = 0
    /\ \E i \in 1..Len(y_age) : df_m[i][2] >= 1 /\ df_f[i][2] = 0
    /\ \E i \in 1..Len(y_age) : df_f[i][2] >= 1

\* C11: once load_data has returned, every record of the shared table and
\* of the memoized table has one severity value that is not missing: the
\* literal "Se desconoce" where the cell of the file was empty, the text of
\* the file unchanged otherwise; this holds in every later state, whatever
\* sections have run and whatever the widgets hold.
C11_SeverityTotal ==
    Loaded =>
        /\ Len(df.rows) = Len(file)
        /\ cache # << >> /\ Len(cache[1].rows) = Len(file)
        /\ \A i \in 1..Len(file) :
              /\ df.rows[i].lesividad # NA
              /\ file[i].lesividad = NA => df.rows[i].lesividad = "Se desconoce"
              /\ file[i].lesividad # NA => df.rows[i].lesividad = file[i].lesividad
              /\ cache[1].rows[i].lesividad = df.rows[i].lesividad

\* a file with an empty severity cell next to a filled one, after every
\* section has run in a later run of the script
C11_Witness ==
    /\ pc = "done"
    /\ hora_mapa # hora_defecto
    /\ \E i \in 1..Len(file) :
          file[i].lesividad = NA /\ df.rows[i].lesividad = "Se desconoce"
    /\ \E i \in 1..Len(file) :
          /\ file[i].lesividad = "Fallecido 24 horas"
          /\ df.rows[i].lesividad = "Fallecido 24 horas"

\* a record of the file whose x or y cell is empty
MissingXY(r) == r.coordenada_x_utm = NaN \/ r.coordenada_y_utm = NaN

\* a record of the file whose x or y cell holds text that is no number
InvalidXY(r) == ~IsNumeric(r.coordenada_x_utm) \/ ~IsNumeric(r.coordenada_y_utm)

\* the records of the file whose coordinates are missing or invalid
BadXYIds == { file[i].num_expediente :
                i \in { j \in 1..Len(file) : MissingXY(file[j]) \/ InvalidXY(file[j]) } }

\* a record with missing or invalid coordinates has missing lon and lat in
\* the shared table, and is not among the points of the map, whatever the
\* hour and the scenario (for a missing cell this is so exactly when the
\* transform propagates the missing value)
C12_BadXYDropped ==
    /\ Loaded =>
          \A i \in 1..Len(df.rows) :
              df.rows[i].num_expediente \in BadXYIds =>
                  df.rows[i].lon = NaN /\ df.rows[i].lat = NaN
    /\ ui["map"] # "none" =>
          \A i \in 1..Len(df_map.rows) :
              df_map.rows[i].num_expediente \notin BadXYIds

\* C12: a record whose x or y is missing or invalid gets missing lon and
\* lat from load_data and never appears among the points of the map, for
\* any hour and scenario, and load_data does not raise because of it.
C12_InvalidCoordinates ==
    /\ C12_BadXYDropped
    /\ BadXYIds # {} => ui["load"] # "exception"

\* the vehicle-type labels observed in the memoized table
ObservedVehicles ==
    { cache[1].rows[i].tipo_vehiculo : i \in 1..Len(cache[1].rows) } \ { NA }

\* C13: in every state the scenario is one of the three options, the hour
\* of the map is an integer from 0 to 23, the days of the alcohol chart are
\* among Viernes, Sábado and Domingo, and the vehicle selection, the initial
\* default included, is a set of vehicle types observed in the table.
C13_ParametersInDomain ==
    /\ escenario \in { "Todo el tráfico", "Sólo graves o mortales", "Sólo atropellos" }
    /\ hora_mapa \in Int /\ 0 <= hora_mapa /\ hora_mapa <= 23
    /\ dias_sel \subseteq { "Viernes", "Sábado", "Domingo" }
    /\ vehiculos_sel # << >> =>
          /\ cache # << >>
          /\ vehiculos_sel[1] \subseteq ObservedVehicles

\* a later run with the hour at the end of its range and one day chosen,
\* where the vehicle selection is the initial default and the table lacks
\* some of the types of seleccion_defecto
C13_Witness ==
    /\ pc = "done"
    /\ hora_mapa = 23
    /\ dias_sel = { "Sábado" }
    /\ vehiculos_sel # << >>
    /\ vehiculos_sel[1] = VehDefault(df)
    /\ vehiculos_sel[1] # {}
    /\ vehiculos_sel[1] # Range(seleccion_defecto)

=============================================================================
